---- MODULE Spec2Model ----
(***************************************************************************)
(* Model of the resource loading and caching subsystem                     *)
(* (UrlResourceLoader): loadResource, its cache, loadResources and         *)
(* preloadResources; and of agent synchronisation (syncAgents,             *)
(* RepositorySync, AgentManager).                                          *)
(*                                                                         *)
(* Spec: the loadResource calls of concurrent chat handlers.               *)
(* SpecCache: Spec with a caller of clearCache and clearExpiredCache.      *)
(* SpecPreload: one call of preloadResources.                              *)
(* SpecPreloadFair: SpecPreload in which every request settles.            *)
(* SpecLoadResources: one call of loadResources.                           *)
(* SpecSync: the sync cycles of the extension, which may overlap.          *)
(* SpecFiles: the cycles on a manifest whose agents refer to files.        *)
(* SpecOrder: SpecSync with the manifests arriving in the order requested. *)
(* SpecRawUrl: the manifest requests for many repository urls.             *)
(* SpecStore: SpecSync together with the other AgentManager operations.    *)
(*                                                                         *)
(* An asynchronous method is cut at its awaits: the code up to the first   *)
(* await is one action, each continuation after an await is another.       *)
(* Date.now() is the variable now, advanced by Tick.                       *)
(***************************************************************************)
EXTENDS Integers, Sequences, FiniteSets, TLC

(***************************************************************************)
(* Bounds of the model.                                                    *)
(***************************************************************************)
\* number of loadResource calls that may overlap (concurrent chat handlers)
MaxCalls == 2
\* total number of loadResource calls started by chat handlers
MaxLoads == 2
\* number of clock advances
MaxTicks == 1
\* number of distinct urls in the largest input of preloadResources
MaxUrls == 6
\* number of sync cycles started (all of them may be in flight together)
MaxCycles == 2

(***************************************************************************)
(* Program constants.                                                      *)
(***************************************************************************)
defaultCacheDuration == 3600000
batchSize == 5

(***************************************************************************)
(* Values.                                                                 *)
(***************************************************************************)
\* resource.headers === undefined
NoHeaders == [present |-> FALSE]
\* resource.cacheDuration === undefined
NoDuration == [set |-> FALSE]
\* result.error === undefined
NoError == "<undefined>"
\* cache.get(key) === undefined
NoEntry == [present |-> FALSE]
\* no ResourceContent produced (yet)
NoResult == [returned |-> FALSE]

Headers(pairs) == [present |-> TRUE, pairs |-> pairs]
Duration(ms) == [set |-> TRUE, ms |-> ms]

\* amounts by which the clock advances between two events
Steps == {5000, defaultCacheDuration}

\* response.data of a successful axios.get: a text body, or a parsed object
\* {k: 1} with its String(data) and its JSON.stringify(data, null, 2)
StringBody(s) == [kind |-> "string", text |-> s]
ObjectBody ==
    [kind |-> "object", text |-> "[object Object]",
     pretty |-> "{\n  \"k\": 1\n}"]
Bodies == {StringBody("a"), ObjectBody}

\* the bodies served to preloadResources
PreloadBodies == {ObjectBody}

\* error.message of a rejected axios.get: timeout, non-2xx status, network
Errors == {"timeout of 15000ms exceeded",
           "Request failed with status code 404",
           "Network Error"}

(***************************************************************************)
(* Resources declared by agents (AgentResource).                           *)
(***************************************************************************)
Res(type, url, headers, cacheDuration) ==
    [type |-> type, url |-> url, headers |-> headers,
     cacheDuration |-> cacheDuration]

H1 == Headers(<< <<"Authorization", "t1">> >>)

\* the resources chat handlers load: same url with and without headers,
\* declared lifetimes absent, 0 and positive
HandlerResources ==
    { Res("url", "X", NoHeaders, NoDuration),
      Res("api", "X", H1, Duration(5000)),
      Res("file", "X", NoHeaders, Duration(0)) }

(***************************************************************************)
(* Pure helpers of UrlResourceLoader.                                      *)
(***************************************************************************)
RECURSIVE JoinPairs(_)
JoinPairs(pairs) ==
    IF pairs = <<>> THEN ""
    ELSE LET p == Head(pairs)
             one == "\"" \o p[1] \o "\":\"" \o p[2] \o "\""
         IN IF Len(pairs) = 1 THEN one
            ELSE one \o "," \o JoinPairs(Tail(pairs))

\* JSON.stringify of a Record<string, string>
JSONstringify(pairs) == "{" \o JoinPairs(pairs) \o "}"

getCacheKey_urlOnly(resource) == resource.url \o "::"

getCacheKey(resource) ==
    LET headers == IF resource.headers.present
                   THEN JSONstringify(resource.headers.pairs)
                   ELSE ""
    IN resource.url \o "::" \o headers

\* resource.cacheDuration || this.defaultCacheDuration
effectiveCacheDuration(resource) ==
    IF resource.cacheDuration.set /\ resource.cacheDuration.ms # 0
    THEN resource.cacheDuration.ms
    ELSE defaultCacheDuration

isFresh_lenient(cached, t, cacheDuration) ==
    cached.present /\ (t - cached.timestamp) <= cacheDuration

isFresh_inverted(cached, t, cacheDuration) ==
    cached.present /\ (t - cached.timestamp) > cacheDuration

\* cached && (Date.now() - cached.timestamp) < cacheDuration
isFresh(cached, t, cacheDuration) ==
    cached.present /\ (t - cached.timestamp) < cacheDuration

\* JSON.stringify does not throw on an object parsed from a response
processContent(data, type) ==
    IF data.kind = "string" THEN data.text
    ELSE IF type = "api" \/ type = "url"
         THEN data.pretty
         ELSE data.text

\* the ResourceContent of a cache hit
hitResult(resource, cached) ==
    [returned |-> TRUE, url |-> resource.url, content |-> cached.content,
     loadedAt |-> cached.timestamp, error |-> NoError]

\* the ResourceContent of a successful fetch
freshResult(resource, content, t) ==
    [returned |-> TRUE, url |-> resource.url, content |-> content,
     loadedAt |-> t, error |-> NoError]

staleResult_empty(resource, cached, message) ==
    [returned |-> TRUE, url |-> resource.url, content |-> "",
     loadedAt |-> cached.timestamp, error |-> message]

\* the expired cache entry returned by the catch block
staleResult(resource, cached, message) ==
    [returned |-> TRUE, url |-> resource.url, content |-> cached.content,
     loadedAt |-> cached.timestamp, error |-> message]

emptyResult_noError(resource, t, message) ==
    [returned |-> TRUE, url |-> resource.url, content |-> "",
     loadedAt |-> t, error |-> NoError]

\* the empty ResourceContent returned by the catch block
emptyResult(resource, t, message) ==
    [returned |-> TRUE, url |-> resource.url, content |-> "",
     loadedAt |-> t, error |-> message]

catchBlock_rethrow(resource, cached, t, message) ==
    IF cached.present
    THEN [settled |-> "resolved", value |-> staleResult(resource, cached, message)]
    ELSE [settled |-> "rejected", value |-> NoResult]

\* the catch block of loadResource: how the promise settles after a failure
catchBlock(resource, cached, t, message) ==
    IF cached.present
    THEN [settled |-> "resolved", value |-> staleResult(resource, cached, message)]
    ELSE [settled |-> "resolved", value |-> emptyResult(resource, t, message)]

(***************************************************************************)
(* Inputs of preloadResources: a Map from owner (agent id) to its          *)
(* resources, in insertion order.                                          *)
(***************************************************************************)
PX_A == Res("url", "X", NoHeaders, Duration(60000))
PX_B == Res("url", "X", H1, Duration(5000))
U(n) == Res("file", "U" \o ToString(n), NoHeaders, NoDuration)

\* the resources U(lo), ..., U(hi) in order
RECURSIVE Us(_, _)
Us(lo, hi) == IF lo > hi THEN <<>> ELSE <<U(lo)>> \o Us(lo + 1, hi)

\* an empty map; one owner declaring the same url twice; two owners with
\* MaxUrls distinct urls between them and duplicates across them
PreloadInputs ==
    { <<>>,
      << <<"agentA", <<PX_B, PX_A>> >> >>,
      << <<"agentA", <<PX_A>> \o Us(1, 2) >>,
         <<"agentB", <<U(2), PX_B>> \o Us(3, MaxUrls - 1) >> >> }

RECURSIVE Flatten(_)
\* for (const resources of agentResources.values()) allResources.push(...)
Flatten(input) ==
    IF input = <<>> THEN <<>>
    ELSE Head(input)[2] \o Flatten(Tail(input))

SeqRange(s) == { s[k] : k \in 1..Len(s) }

InputResources == UNION { SeqRange(Flatten(input)) : input \in PreloadInputs }
AllResources == HandlerResources \cup InputResources

Identity(resource) == <<resource.url, resource.headers>>
Identities == { Identity(r) : r \in AllResources }
Keys == { getCacheKey(r) : r \in AllResources }

RECURSIVE uniqueResources_lastWins(_, _)
uniqueResources_lastWins(all, acc) ==
    IF all = <<>> THEN acc
    ELSE LET r == Head(all)
             hit == { k \in 1..Len(acc) : acc[k].url = r.url }
         IN uniqueResources_lastWins(Tail(all),
                IF hit = {} THEN Append(acc, r)
                ELSE [k \in 1..Len(acc) |-> IF k \in hit THEN r ELSE acc[k]])

RECURSIVE uniqueResources(_, _)
\* the Map uniqueResources, as the sequence of its values in insertion order
uniqueResources(all, acc) ==
    IF all = <<>> THEN acc
    ELSE LET r == Head(all)
         IN uniqueResources(Tail(all),
                IF \E k \in 1..Len(acc) : acc[k].url = r.url
                THEN acc ELSE Append(acc, r))

batch_noLimit(resourceArray, i) ==
    { k \in 1..Len(resourceArray) : i < k }

\* resourceArray.slice(i, i + batchSize), as the set of 1-based positions
batch(resourceArray, i) ==
    { k \in 1..Len(resourceArray) : i < k /\ k <= i + batchSize }

allSettled_noAwait(loads, positions) == TRUE

\* await Promise.all(...) of a batch whose loads all resolve
allSettled(loads, positions) ==
    \A k \in positions : loads[k].pc = "done"

(***************************************************************************)
(* State.                                                                  *)
(***************************************************************************)
VARIABLES
    cache,      \* UrlResourceLoader.cache: key -> entry or NoEntry
    now,        \* Date.now()
    ticks,      \* number of clock advances so far
    calls,      \* the loadResource calls of the chat handlers
    nloads,     \* number of loadResource calls started by chat handlers
    lastGood,   \* history: identity -> entry made by its latest successful fetch
    ppc,        \* preloadResources: "idle", "running", "done", "aborted"
    pinput,     \* preloadResources: its argument
    parr,       \* preloadResources: resourceArray
    pi,         \* preloadResources: loop variable i (0-based)
    ploads,     \* preloadResources: the loadResource call of each position
    lpc,        \* loadResources: "idle", "running", "done", "aborted"
    linput,     \* loadResources: its argument
    lloads,     \* loadResources: the loadResource call of each position
    lresults,   \* loadResources: the array results
    agents,     \* AgentManager.agents: the Map, as its values in insertion order
    persisted,  \* globalState 'agents'
    lastSync,   \* globalState 'lastSync'
    repoUrl,    \* configuration cloudTeamCopilotAgents.repositoryUrl
    branch,     \* configuration cloudTeamCopilotAgents.branch
    cycles,     \* the calls of syncAgents
    shown       \* the messages of vscode.window.showErrorMessage, in order

loaderVars == <<cache, now, ticks, lastGood>>
callVars == <<calls, nloads>>
preloadVars == <<ppc, pinput, parr, pi, ploads>>
manyVars == <<lpc, linput, lloads, lresults>>
syncVars == <<agents, persisted, lastSync, repoUrl, branch, cycles, shown>>
vars == <<cache, now, ticks, lastGood, calls, nloads,
          ppc, pinput, parr, pi, ploads,
          lpc, linput, lloads, lresults,
          agents, persisted, lastSync, repoUrl, branch, cycles, shown>>

CallIds == 1..MaxCalls
CycleIds == 1..MaxCycles
NoContent == "<never loaded>"
Idle == [pc |-> "idle"]
Pending == [pc |-> "pending"]
\* globalState.get('lastSync') === undefined
NoStamp == "<undefined>"
\* config.get('repositoryUrl') of a configuration without one: a text is
\* the sequence of its lexemes, here the empty text
NoRepoUrl == <<>>
\* config.get('branch') of a configuration without one
NoBranch == ""

\* a new UrlResourceLoader (empty cache), no call made yet
InitLoader ==
    /\ cache = [k \in Keys |-> NoEntry]
    /\ now = 0
    /\ ticks = 0
    /\ lastGood = [id \in Identities |-> NoEntry]
    /\ calls = [c \in CallIds |-> Idle]
    /\ nloads = 0
    /\ ppc = "idle"
    /\ pinput = <<>>
    /\ parr = <<>>
    /\ pi = 0
    /\ ploads = <<>>
    /\ lpc = "idle"
    /\ linput = <<>>
    /\ lloads = <<>>
    /\ lresults = <<>>

\* no sync cycle started, no message shown
InitCycles ==
    /\ lastSync = NoStamp
    /\ cycles = [c \in CycleIds |-> Idle]
    /\ shown = <<>>

\* the loader of a first installation: nothing persisted, nothing configured
Init ==
    /\ InitLoader
    /\ InitCycles
    /\ agents = <<>>
    /\ persisted = <<>>
    /\ repoUrl = NoRepoUrl
    /\ branch = NoBranch

(***************************************************************************)
(* loadResource, cut at its await.                                         *)
(***************************************************************************)
contentOf(entry) == IF entry.present THEN entry.content ELSE NoContent

\* Date.now() - cached.timestamp of the entry a call finds (0 if none)
ageOf(cached, t) == IF cached.present THEN t - cached.timestamp ELSE 0

\* loadResource up to the await: the record of the call after the cache check.
\* History fields of a call: hadEntry and age (the entry the cache check saw),
\* found (the content of a fresh entry), attempted and failed (the request),
\* staleEntry (the catch block saw an entry) and prior (the content of the
\* latest successful fetch of the identity when the request failed).
loadResourceBegin(resource, cch, t) ==
    LET cached == cch[getCacheKey(resource)]
        cacheDuration == effectiveCacheDuration(resource)
    IN IF isFresh(cached, t, cacheDuration)
       THEN [pc |-> "done", resource |-> resource,
             hadEntry |-> cached.present, age |-> ageOf(cached, t),
             attempted |-> FALSE, failed |-> FALSE,
             staleEntry |-> FALSE, found |-> cached.content,
             prior |-> NoContent,
             result |-> hitResult(resource, cached)]
       ELSE [pc |-> "fetching", resource |-> resource,
             hadEntry |-> cached.present, age |-> ageOf(cached, t)]

\* the continuation after axios.get resolved
loadResourceOk(call, data, t) ==
    LET content == processContent(data, call.resource.type)
    IN [pc |-> "done", resource |-> call.resource,
        hadEntry |-> call.hadEntry, age |-> call.age,
        attempted |-> TRUE, failed |-> FALSE,
        staleEntry |-> FALSE, found |-> NoContent,
        prior |-> NoContent,
        result |-> freshResult(call.resource, content, t)]

\* the continuation after axios.get rejected
loadResourceErr(call, message, cch, good, t) ==
    LET cached == cch[getCacheKey(call.resource)]
        out == catchBlock(call.resource, cached, t, message)
    IN [pc |-> IF out.settled = "resolved" THEN "done" ELSE "raised",
        resource |-> call.resource,
        hadEntry |-> call.hadEntry, age |-> call.age,
        attempted |-> TRUE, failed |-> TRUE,
        staleEntry |-> cached.present, found |-> NoContent,
        prior |-> contentOf(good[Identity(call.resource)]),
        result |-> out.value]

Entry(content, t) == [present |-> TRUE, content |-> content, timestamp |-> t]

cacheSet_everyKey(cch, resource, content, t) ==
    [k \in DOMAIN cch |-> Entry(content, t)]

\* this.cache.set(cacheKey, {content, timestamp: Date.now()})
cacheSet(cch, resource, content, t) ==
    [cch EXCEPT ![getCacheKey(resource)] = Entry(content, t)]

Tick(d) ==
    /\ ticks < MaxTicks
    /\ ticks' = ticks + 1
    /\ now' = now + d
    /\ UNCHANGED <<cache, lastGood, calls, nloads, preloadVars, manyVars, syncVars>>

\* a chat handler calls loadResource(resource); the call takes the first
\* free slot (the slots are interchangeable)
LoadStart(c, resource) ==
    /\ calls[c].pc = "idle"
    /\ \A other \in CallIds : other < c => calls[other].pc # "idle"
    /\ nloads < MaxLoads
    /\ nloads' = nloads + 1
    /\ calls' = [calls EXCEPT ![c] = loadResourceBegin(resource, cache, now)]
    /\ UNCHANGED <<cache, now, ticks, lastGood, preloadVars, manyVars, syncVars>>

\* the request of call c succeeds with response.data = data
FetchSuccess(c, data) ==
    /\ calls[c].pc = "fetching"
    /\ LET done == loadResourceOk(calls[c], data, now)
       IN /\ calls' = [calls EXCEPT ![c] = done]
          /\ cache' = cacheSet(cache, calls[c].resource, done.result.content, now)
          /\ lastGood' = [lastGood EXCEPT ![Identity(calls[c].resource)] =
                              Entry(done.result.content, now)]
    /\ UNCHANGED <<now, ticks, nloads, preloadVars, manyVars, syncVars>>

\* the request of call c fails with error.message = message
FetchFail(c, message) ==
    /\ calls[c].pc = "fetching"
    /\ calls' = [calls EXCEPT ![c] =
                    loadResourceErr(calls[c], message, cache, lastGood, now)]
    /\ UNCHANGED <<cache, now, ticks, lastGood, nloads, preloadVars, manyVars, syncVars>>

\* the caller consumes the ResourceContent
Return(c) ==
    /\ calls[c].pc \in {"done", "raised"}
    /\ calls' = [calls EXCEPT ![c] = Idle]
    /\ UNCHANGED <<cache, now, ticks, lastGood, nloads, preloadVars, manyVars, syncVars>>

(***************************************************************************)
(* preloadResources, cut at its awaits.                                    *)
(***************************************************************************)
\* Promise.all keeps the ResourceContent of a settled load in an array that
\* preloadResources never reads: only the settlement of the load remains
settled(call) ==
    IF call.pc \in {"done", "raised"}
    THEN [pc |-> call.pc, resource |-> call.resource,
          attempted |-> call.attempted, failed |-> call.failed]
    ELSE call

\* batch.map(resource => this.loadResource(resource)): every call of the
\* batch runs up to its await, in order, before anything else happens
startBatch(loads, resourceArray, i, cch, t) ==
    [k \in 1..Len(resourceArray) |->
        IF k \in batch(resourceArray, i)
        THEN settled(loadResourceBegin(resourceArray[k], cch, t))
        ELSE loads[k]]

preloadLoop_firstBatchOnly(resourceArray, loads, i, cch, t) ==
    IF i < Len(resourceArray) /\ i = 0
    THEN [ppc |-> "running",
          ploads |-> startBatch(loads, resourceArray, i, cch, t)]
    ELSE [ppc |-> "done", ploads |-> loads]

\* the for loop at the test i < resourceArray.length, with i already set
preloadLoop(resourceArray, loads, i, cch, t) ==
    IF i < Len(resourceArray)
    THEN [ppc |-> "running",
          ploads |-> startBatch(loads, resourceArray, i, cch, t)]
    ELSE [ppc |-> "done", ploads |-> loads]

\* preloadResources(input) up to its first await
PreloadStart(input) ==
    /\ ppc = "idle"
    /\ LET resourceArray == uniqueResources(Flatten(input), <<>>)
           loop == preloadLoop(resourceArray,
                               [k \in 1..Len(resourceArray) |-> Pending],
                               0, cache, now)
       IN /\ pinput' = input
          /\ parr' = resourceArray
          /\ pi' = 0
          /\ ppc' = loop.ppc
          /\ ploads' = loop.ploads
    /\ UNCHANGED <<cache, now, ticks, lastGood, calls, nloads,
                   manyVars, syncVars>>

\* the request of the load at position k succeeds
PFetchSuccess(k, data) ==
    /\ k \in DOMAIN ploads
    /\ ploads[k].pc = "fetching"
    /\ LET done == loadResourceOk(ploads[k], data, now)
       IN /\ ploads' = [ploads EXCEPT ![k] = settled(done)]
          /\ cache' = cacheSet(cache, ploads[k].resource, done.result.content, now)
          /\ lastGood' = [lastGood EXCEPT ![Identity(ploads[k].resource)] =
                              Entry(done.result.content, now)]
    /\ UNCHANGED <<now, ticks, calls, nloads, ppc, pinput, parr, pi,
                   manyVars, syncVars>>

\* the request of the load at position k fails; a rejected load would reject
\* Promise.all and with it preloadResources
PFetchFail(k, message) ==
    /\ k \in DOMAIN ploads
    /\ ploads[k].pc = "fetching"
    /\ LET done == loadResourceErr(ploads[k], message, cache, lastGood, now)
       IN /\ ploads' = [ploads EXCEPT ![k] = settled(done)]
          /\ ppc' = IF done.pc = "raised" /\ ppc = "running"
                    THEN "aborted" ELSE ppc
    /\ UNCHANGED <<cache, now, ticks, lastGood, calls, nloads,
                   pinput, parr, pi, manyVars, syncVars>>

\* the continuation after await Promise.all(...): i += batchSize, next test
PreloadNextBatch ==
    /\ ppc = "running"
    /\ allSettled(ploads, batch(parr, pi))
    /\ LET loop == preloadLoop(parr, ploads, pi + batchSize, cache, now)
       IN /\ pi' = pi + batchSize
          /\ ppc' = loop.ppc
          /\ ploads' = loop.ploads
    /\ UNCHANGED <<cache, now, ticks, lastGood, calls, nloads,
                   pinput, parr, manyVars, syncVars>>

Next ==
    \/ \E d \in Steps : Tick(d)
    \/ \E c \in CallIds, r \in HandlerResources : LoadStart(c, r)
    \/ \E c \in CallIds, data \in Bodies : FetchSuccess(c, data)
    \/ \E c \in CallIds, message \in Errors : FetchFail(c, message)
    \/ \E c \in CallIds : Return(c)

Spec == Init /\ [][Next]_vars

NextPreload ==
    \/ \E d \in Steps : Tick(d)
    \/ \E input \in PreloadInputs : PreloadStart(input)
    \/ \E k \in 1..Len(ploads), data \in PreloadBodies : PFetchSuccess(k, data)
    \/ \E k \in 1..Len(ploads), message \in Errors : PFetchFail(k, message)
    \/ PreloadNextBatch

SpecPreload == Init /\ [][NextPreload]_vars

\* the request of the load at position k settles: axios resolves, rejects
\* or gives up after its timeout of 15 s
PSettle(k) ==
    \/ \E data \in PreloadBodies : PFetchSuccess(k, data)
    \/ \E message \in Errors : PFetchFail(k, message)

\* every request that is outstanding settles, and the continuation of a
\* settled Promise.all is run by the event loop
FairPreload ==
    /\ \A k \in 1..MaxUrls : WF_vars(PSettle(k))
    /\ WF_vars(PreloadNextBatch)

SpecPreloadFair == Init /\ [][NextPreload]_vars /\ FairPreload

(***************************************************************************)
(* clearCache and clearExpiredCache.  Nothing in the sources calls them:   *)
(* SpecCache is Spec with a caller of the two, and with clock advances     *)
(* that let an entry grow older than the default lifetime.                 *)
(***************************************************************************)
CacheSteps == {5000, defaultCacheDuration + 5000}

\* the loop of clearExpiredCache, which takes no argument
clearExpiredCache(cch, t) ==
    [k \in DOMAIN cch |->
        IF cch[k].present /\ t - cch[k].timestamp > defaultCacheDuration
        THEN NoEntry
        ELSE cch[k]]

ClearExpiredCache ==
    /\ cache' = clearExpiredCache(cache, now)
    /\ UNCHANGED <<now, ticks, lastGood, callVars, preloadVars, manyVars,
                   syncVars>>

\* this.cache.clear()
ClearCache ==
    /\ cache' = [k \in DOMAIN cache |-> NoEntry]
    /\ UNCHANGED <<now, ticks, lastGood, callVars, preloadVars, manyVars,
                   syncVars>>

NextCache ==
    \/ \E d \in CacheSteps : Tick(d)
    \/ \E c \in CallIds, r \in HandlerResources : LoadStart(c, r)
    \/ \E c \in CallIds, data \in Bodies : FetchSuccess(c, data)
    \/ \E c \in CallIds, message \in Errors : FetchFail(c, message)
    \/ \E c \in CallIds : Return(c)
    \/ ClearExpiredCache
    \/ ClearCache

SpecCache == Init /\ [][NextCache]_vars

(***************************************************************************)
(* loadResources, cut at its await.                                        *)
(***************************************************************************)
\* the arrays a chat handler passes (agent.resources): empty; a url declared
\* twice around another one; two urls, the first with headers
LoadInputs ==
    { <<>>,
      <<U(1), PX_A, U(1)>>,
      <<PX_B, U(2)>> }

nextLoads_all(resources, n) ==
    { k \in 1..Len(resources) : n < k }

\* for (const resource of resources) { await this.loadResource(resource) }:
\* the positions whose call starts once n results have been pushed
nextLoads(resources, n) ==
    { k \in 1..Len(resources) : k = n + 1 }

\* the for loop at its test, with n results pushed so far
loadResourcesLoop(resources, loads, n, cch, t) ==
    IF n < Len(resources)
    THEN [lpc |-> "running",
          lloads |-> [k \in 1..Len(resources) |->
                        IF k \in nextLoads(resources, n) /\ loads[k].pc = "pending"
                        THEN loadResourceBegin(resources[k], cch, t)
                        ELSE loads[k]]]
    ELSE [lpc |-> "done", lloads |-> loads]

\* loadResources(input) up to its first await
LoadResourcesStart(input) ==
    /\ lpc = "idle"
    /\ LET loop == loadResourcesLoop(input, [k \in 1..Len(input) |-> Pending],
                                     0, cache, now)
       IN /\ linput' = input
          /\ lresults' = <<>>
          /\ lpc' = loop.lpc
          /\ lloads' = loop.lloads
    /\ UNCHANGED <<cache, now, ticks, lastGood, callVars, preloadVars, syncVars>>

\* the request of the load at position k succeeds
LFetchSuccess(k, data) ==
    /\ k \in DOMAIN lloads
    /\ lloads[k].pc = "fetching"
    /\ LET done == loadResourceOk(lloads[k], data, now)
       IN /\ lloads' = [lloads EXCEPT ![k] = done]
          /\ cache' = cacheSet(cache, lloads[k].resource, done.result.content, now)
          /\ lastGood' = [lastGood EXCEPT ![Identity(lloads[k].resource)] =
                              Entry(done.result.content, now)]
    /\ UNCHANGED <<now, ticks, callVars, preloadVars, lpc, linput, lresults,
                   syncVars>>

\* the request of the load at position k fails
LFetchFail(k, message) ==
    /\ k \in DOMAIN lloads
    /\ lloads[k].pc = "fetching"
    /\ lloads' = [lloads EXCEPT ![k] =
                     loadResourceErr(lloads[k], message, cache, lastGood, now)]
    /\ UNCHANGED <<cache, now, ticks, lastGood, callVars, preloadVars,
                   lpc, linput, lresults, syncVars>>

\* the continuation after await this.loadResource(resource): push, next
\* iteration; a rejected load would reject loadResources
LoadResourcesNext ==
    /\ lpc = "running"
    /\ LET k == Len(lresults) + 1
       IN /\ lloads[k].pc \in {"done", "raised"}
          /\ IF lloads[k].pc = "raised"
             THEN /\ lpc' = "aborted"
                  /\ UNCHANGED <<lloads, lresults>>
             ELSE LET pushed == [lloads EXCEPT ![k] = settled(lloads[k])]
                      loop == loadResourcesLoop(linput, pushed, k, cache, now)
                  IN /\ lresults' = Append(lresults, lloads[k].result)
                     /\ lpc' = loop.lpc
                     /\ lloads' = loop.lloads
    /\ UNCHANGED <<cache, now, ticks, lastGood, callVars, preloadVars,
                   linput, syncVars>>

NextLoadResources ==
    \/ \E d \in Steps : Tick(d)
    \/ \E input \in LoadInputs : LoadResourcesStart(input)
    \/ \E k \in 1..Len(lloads), data \in Bodies : LFetchSuccess(k, data)
    \/ \E k \in 1..Len(lloads), message \in Errors : LFetchFail(k, message)
    \/ LoadResourcesNext

SpecLoadResources == Init /\ [][NextLoadResources]_vars

(***************************************************************************)
(* Agent synchronisation: values.                                          *)
(*                                                                         *)
(* A field of a JSON document is a tagged value: its typeof and its text.  *)
(* A manifest entry is a JSON object, whose fields may be absent, empty or *)
(* of another type than the Agent interface declares, or null.             *)
(***************************************************************************)
Undefined == [t |-> "undefined", v |-> ""]
S(s) == [t |-> "string", v |-> s]
N(digits) == [t |-> "number", v |-> digits]
Arr(items) == [t |-> "array", items |-> items]

\* !x
falsy(x) ==
    \/ x.t = "undefined"
    \/ x.t = "string" /\ x.v = ""
    \/ x.t = "number" /\ x.v = "0"

typeof(x) == IF x.t = "array" THEN "object" ELSE x.t
isArray(x) == x.t = "array"

\* String(x) of a text
text(x) == x.v

JRes(type, url) == [type |-> type, url |-> url]

Agent(id, name, prompt, resources, templates) ==
    [t |-> "object", id |-> id, name |-> name, prompt |-> prompt,
     resources |-> resources, templates |-> templates]
\* a null in the list of entries
NullEntry == [t |-> "null"]

\* the files of the repository that prompts and templates refer to
FileNames == {"docs.md", "t1.md"}

A1 == Agent(S("a1"), S("Reviewer"), S("Review the code"),
            Arr(<<JRes(S("url"), S("https://x/guide"))>>), Undefined)
A1_v2 == Agent(S("a1"), S("Reviewer"), S("Review the code, v2"),
               Undefined, Arr(<<"plain">>))
A2 == Agent(S("a2"), S("Docs"), S("file:docs.md"),
            Undefined, Arr(<<"file:t1.md", "plain">>))
\* an agent with a literal template between two file references
A3 == Agent(S("a3"), S("Docs"), S("Write the docs"),
            Undefined, Arr(<<"file:t1.md", "plain", "file:docs.md">>))
EmptyId == Agent(S(""), S("a"), S("b"), Undefined, Undefined)
NoPrompt == Agent(S("a"), S("b"), Undefined, Undefined, Undefined)
NumberId == Agent(N("42"), S("b"), S("c"), Undefined, Undefined)
Ftp == Agent(S("a"), S("b"), S("c"),
             Arr(<<JRes(S("ftp"), S("x"))>>), Undefined)
\* an agent of an earlier manifest that no manifest below contains
Old9 == Agent(S("z9"), S("Legacy"), S("Old prompt"), Undefined, Undefined)

\* response.data of the manifest request: an AgentConfig, or nothing
Manifest(version, list) == [t |-> "object", version |-> version, agents |-> list]
NoData == Undefined

Manifests ==
    { Manifest(S("1.0"), Arr(<<>>)),
      Manifest(S("1.0"), Arr(<<A1>>)),
      Manifest(S("2.0"), Arr(<<EmptyId, A2, A1_v2>>)),
      Manifest(S("1.0"), Arr(<<NoPrompt, Ftp, NumberId>>)),
      Manifest(Undefined, Arr(<<A1_v2>>)),
      Manifest(S("1.0"), Arr(<<NullEntry, A1>>)),
      Manifest(S("1.0"), Undefined),
      NoData }

\* the manifests of SpecFiles
FileManifests == { Manifest(S("3.0"), Arr(<<A3, A2>>)) }

\* response.data of a request for a prompt file and for a template file
PromptBodies == {S("You write documentation"), S("")}
TemplateBodies == {"# Template"}

\* the error of a rejected request, and of the format check
NetworkError(message) == [name |-> "AxiosError", message |-> message]
FormatError == [name |-> "Error", message |-> "Invalid agent configuration format"]
\* agent.id of a null entry, in validateAgent
TypeError ==
    [name |-> "TypeError",
     message |-> "Cannot read properties of null (reading 'id')"]
ManifestErrors == {NetworkError("timeout of 10000ms exceeded"),
                   NetworkError("Request failed with status code 404")}

\* `${error}` of an Error
errorString(error) == error.name \o ": " \o error.message

\* globalState 'agents' at activation: nothing, or the set of an earlier sync
InitialPersisted == { <<>>, <<A1, Old9>> }
RepoUrls ==
    {NoRepoUrl,
     <<"https", ":", "/", "/", "github", ".", "com", "/", "acme", "/",
       "agents", ".", "git">>}

\* new Date().toISOString()
toISOString(t) == "T+" \o ToString(t) \o "ms"

(***************************************************************************)
(* Agent synchronisation: pure functions.                                  *)
(***************************************************************************)
\* RepositorySync.validateAgent
RepositorySync_validateAgent(agent) ==
    IF falsy(agent.id) \/ falsy(agent.name) \/ falsy(agent.prompt)
    THEN FALSE
    ELSE IF \/ typeof(agent.id) # "string"
            \/ typeof(agent.name) # "string"
            \/ typeof(agent.prompt) # "string"
         THEN FALSE
         ELSE TRUE

validateResource_anyType(resource) ==
    IF falsy(resource.type) \/ falsy(resource.url)
    THEN FALSE
    ELSE IF typeof(resource.type) # "string" \/ typeof(resource.url) # "string"
         THEN FALSE
         ELSE TRUE

\* AgentManager.validateResource
validateResource(resource) ==
    IF falsy(resource.type) \/ falsy(resource.url)
    THEN FALSE
    ELSE IF typeof(resource.type) # "string" \/ typeof(resource.url) # "string"
         THEN FALSE
         ELSE IF text(resource.type) \notin {"url", "file", "api"}
              THEN FALSE
              ELSE TRUE

\* AgentManager.validateAgent
AgentManager_validateAgent(agent) ==
    IF falsy(agent.id) \/ falsy(agent.name) \/ falsy(agent.prompt)
    THEN FALSE
    ELSE IF \/ typeof(agent.id) # "string"
            \/ typeof(agent.name) # "string"
            \/ typeof(agent.prompt) # "string"
         THEN FALSE
         ELSE IF ~falsy(agent.resources)
              THEN IF ~isArray(agent.resources)
                   THEN FALSE
                   ELSE \A i \in 1..Len(agent.resources.items) :
                            validateResource(agent.resources.items[i])
              ELSE TRUE

\* !response.data || !response.data.agents
accepted(data) == ~(falsy(data) \/ falsy(data.agents))

\* validateAgent raises on an entry that has no properties, and filter with it
filterRaises(list) == \E i \in 1..Len(list) : list[i].t = "null"

RECURSIVE filter(_)
\* agentConfig.agents.filter(agent => this.validateAgent(agent)), when no
\* call of validateAgent raises
filter(list) ==
    IF list = <<>> THEN <<>>
    ELSE IF RepositorySync_validateAgent(Head(list))
         THEN <<Head(list)>> \o filter(Tail(list))
         ELSE filter(Tail(list))

\* this.agents.set(agent.id, agent) on the Map given by its values
mapSet(map, agent) ==
    IF \E i \in 1..Len(map) : map[i].id = agent.id
    THEN [i \in 1..Len(map) |-> IF map[i].id = agent.id THEN agent ELSE map[i]]
    ELSE Append(map, agent)

RECURSIVE setValid(_, _)
\* the loop of updateAgents over newAgents, on the Map as it is so far
setValid(newAgents, map) ==
    IF newAgents = <<>> THEN map
    ELSE setValid(Tail(newAgents),
            IF AgentManager_validateAgent(Head(newAgents))
            THEN mapSet(map, Head(newAgents))
            ELSE map)

updateAgents_noClear(newAgents, map) == setValid(newAgents, map)

\* AgentManager.updateAgents up to its await: this.agents.clear(), the loop
updateAgents(newAgents, map) == setValid(newAgents, <<>>)

RECURSIVE setAll(_, _)
\* AgentManager.loadAgents: this.agents.clear(), then set every saved agent
setAll(savedAgents, map) ==
    IF savedAgents = <<>> THEN map
    ELSE setAll(Tail(savedAgents), mapSet(map, Head(savedAgents)))

loadAgents(savedAgents) == setAll(savedAgents, <<>>)

\* Array.from(this.agents.values())
values(map) == map

\* agent.name.toLowerCase() of the names above
toLowerCase(name) ==
    CASE name = "Reviewer" -> "reviewer"
      [] name = "Docs" -> "docs"
      [] name = "Legacy" -> "legacy"
      [] OTHER -> name

getAgents(map) == values(map)

\* this.agents.get(id): <<agent>>, or <<>> for undefined
getAgent(map, id) == SelectSeq(map, LAMBDA agent : agent.id = S(id))

\* Array.from(this.agents.values()).find(...): <<agent>>, or <<>> for undefined
getAgentByName(map, name) ==
    LET hits == SelectSeq(map, LAMBDA agent :
                    toLowerCase(text(agent.name)) = toLowerCase(name))
    IN IF hits = <<>> THEN <<>> ELSE <<Head(hits)>>

(***************************************************************************)
(* RepositorySync.buildRawUrl.  A repository url is the sequence of its    *)
(* lexemes: a lexeme is one character that is not a word character, or a   *)
(* run of word characters [A-Za-z0-9_-]; the names of the hosts and a      *)
(* trailing ".git" are always cut into lexemes of their own.               *)
(***************************************************************************)
\* the names of the hosts buildRawUrl looks for
GitHub == <<"github", ".", "com">>
GitLab == <<"gitlab", ".", "com">>
Azure == <<"dev", ".", "azure", ".", "com">>
Bitbucket == <<"bitbucket", ".", "org">>
DotGit == <<".", "git">>

\* the repository urls configured: the four hosts with and without the
\* trailing .git, scp-like syntax, paths that the pattern of the host does
\* not match, a repository name with a dot, a name of one host in the path
\* of another, a host name inside a longer name, a self-hosted server
RawRepoUrls ==
    { <<"git", "@">> \o GitHub \o <<":", "acme", "/", "widgets">> \o DotGit }
    \cup
    { <<"https", ":", "/", "/">> \o rest : rest \in
        { GitHub \o <<"/", "acme", "/", "widgets">> \o DotGit,
          GitHub \o <<"/", "acme", "/", "widgets">>,
          GitHub \o <<"/", "acme">>,
          GitHub \o <<"/", "acme", "/", "my", ".", "repo">>,
          GitHub \o <<"/", "acme", "/", "widgets">> \o DotGit \o <<"/">>,
          <<"my">> \o GitHub \o <<"/", "acme", "/", "widgets">>,
          GitLab \o <<"/", "acme", "/", "widgets">> \o DotGit,
          GitLab \o <<"/", "acme", "/", "group", "/", "widgets">>,
          GitLab \o <<"/", "mirrors", "/">> \o GitHub \o <<"-", "tools">>,
          GitLab \o <<"/", "acme">>,
          Azure \o <<"/", "org", "/", "proj", "/", "_git", "/", "widgets">>,
          Azure \o <<"/", "org", "/", "proj">>,
          Bitbucket \o <<"/", "acme", "/", "widgets">> \o DotGit,
          Bitbucket \o <<":", "acme">>,
          <<"git", ".", "example", ".", "com", "/", "acme", "/", "widgets">>,
          <<"git", ".", "example", ".", "com", "/", "acme", "/", "widgets">>
              \o DotGit } }
Branches == {NoBranch, "main"}

RECURSIVE Join(_)
\* the text of a sequence of lexemes
Join(lexemes) ==
    IF lexemes = <<>> THEN "" ELSE Head(lexemes) \o Join(Tail(lexemes))

\* the characters of the urls above that are not word characters
NonWord == {"/", ":", ".", "@"}

\* repoUrl.replace(/\.git$/, '')
stripGit(url) ==
    IF Len(url) >= 2 /\ SubSeq(url, Len(url) - 1, Len(url)) = DotGit
    THEN SubSeq(url, 1, Len(url) - 2)
    ELSE url

\* the literal occurs in the url at lexeme i
startsAt(url, i, literal) ==
    /\ i + Len(literal) - 1 <= Len(url)
    /\ SubSeq(url, i, i + Len(literal) - 1) = literal

\* cleanUrl.includes(literal)
includes(url, literal) == \E i \in 1..Len(url) : startsAt(url, i, literal)

\* a greedy class+ from lexeme i: the position after the longest run of
\* lexemes outside stops (i itself when the run is empty)
runEnd(url, i, stops) ==
    CHOOSE e \in i..(Len(url) + 1) :
        /\ e = Len(url) + 1 \/ url[e] \in stops
        /\ \A k \in i..(e - 1) : url[k] \notin stops

\* the groups of host[/:]([\w-]+)\/([\w-]+) matched with the host at lexeme
\* i, or <<>>: a shorter first group would not be followed by a slash
ownerRepoAt(url, host, i) ==
    LET sep == i + Len(host)
        ownerEnd == runEnd(url, sep + 1, NonWord)
        repoEnd == runEnd(url, ownerEnd + 1, NonWord)
    IN IF /\ startsAt(url, i, host)
          /\ sep <= Len(url) /\ url[sep] \in {"/", ":"}
          /\ ownerEnd > sep + 1
          /\ ownerEnd <= Len(url) /\ url[ownerEnd] = "/"
          /\ repoEnd > ownerEnd + 1
       THEN <<Join(SubSeq(url, sep + 1, ownerEnd - 1)),
              Join(SubSeq(url, ownerEnd + 1, repoEnd - 1))>>
       ELSE <<>>

\* the groups of dev\.azure\.com\/([^/]+)\/([^/]+)\/_git\/([^/]+) matched
\* with the host at lexeme i, or <<>>
orgProjectRepoAt(url, i) ==
    LET sep == i + Len(Azure)
        orgEnd == runEnd(url, sep + 1, {"/"})
        projectEnd == runEnd(url, orgEnd + 1, {"/"})
        repoEnd == runEnd(url, projectEnd + 3, {"/"})
    IN IF /\ startsAt(url, i, Azure)
          /\ sep <= Len(url) /\ url[sep] = "/"
          /\ orgEnd > sep + 1
          /\ orgEnd <= Len(url)
          /\ projectEnd > orgEnd + 1
          /\ startsAt(url, projectEnd, <<"/", "_git", "/">>)
          /\ repoEnd > projectEnd + 3
       THEN <<Join(SubSeq(url, sep + 1, orgEnd - 1)),
              Join(SubSeq(url, orgEnd + 1, projectEnd - 1)),
              Join(SubSeq(url, projectEnd + 3, repoEnd - 1))>>
       ELSE <<>>

\* cleanUrl.match(pattern): the groups of the leftmost match, or <<>> for null
match(url, host) ==
    LET groupsAt(i) == IF host = Azure THEN orgProjectRepoAt(url, i)
                       ELSE ownerRepoAt(url, host, i)
        hits == { i \in 1..Len(url) : groupsAt(i) # <<>> }
    IN IF hits = {} THEN <<>>
       ELSE groupsAt(CHOOSE i \in hits : \A other \in hits : i <= other)

buildRawUrl_hostOnly(repo, branchName, filePath) ==
    LET cleanUrl == stripGit(repo)
        generic == Join(cleanUrl) \o "/raw/" \o branchName \o "/" \o filePath
        m(host) == match(cleanUrl, host)
    IN IF includes(cleanUrl, GitHub)
       THEN IF m(GitHub) = <<>> THEN generic
            ELSE "https://raw.githubusercontent.com/" \o m(GitHub)[1] \o "/"
                 \o m(GitHub)[2] \o "/" \o branchName \o "/" \o filePath
       ELSE IF includes(cleanUrl, GitLab)
       THEN IF m(GitLab) = <<>> THEN generic
            ELSE "https://gitlab.com/" \o m(GitLab)[1] \o "/" \o m(GitLab)[2]
                 \o "/-/raw/" \o branchName \o "/" \o filePath
       ELSE IF includes(cleanUrl, Azure)
       THEN IF m(Azure) = <<>> THEN generic
            ELSE "https://dev.azure.com/" \o m(Azure)[1] \o "/" \o m(Azure)[2]
                 \o "/_apis/git/repositories/" \o m(Azure)[3]
                 \o "/items?path=/" \o filePath \o "&version=GB" \o branchName
                 \o "&api-version=7.0"
       ELSE IF includes(cleanUrl, Bitbucket)
       THEN IF m(Bitbucket) = <<>> THEN generic
            ELSE "https://bitbucket.org/" \o m(Bitbucket)[1] \o "/"
                 \o m(Bitbucket)[2] \o "/raw/" \o branchName \o "/" \o filePath
       ELSE generic

\* RepositorySync.buildRawUrl, with repo for its parameter repoUrl
buildRawUrl(repo, branchName, filePath) ==
    LET cleanUrl == stripGit(repo)
        m(host) == match(cleanUrl, host)
    IN IF includes(cleanUrl, GitHub) /\ m(GitHub) # <<>>
       THEN "https://raw.githubusercontent.com/" \o m(GitHub)[1] \o "/"
            \o m(GitHub)[2] \o "/" \o branchName \o "/" \o filePath
       ELSE IF includes(cleanUrl, GitLab) /\ m(GitLab) # <<>>
       THEN "https://gitlab.com/" \o m(GitLab)[1] \o "/" \o m(GitLab)[2]
            \o "/-/raw/" \o branchName \o "/" \o filePath
       ELSE IF includes(cleanUrl, Azure) /\ m(Azure) # <<>>
       THEN "https://dev.azure.com/" \o m(Azure)[1] \o "/" \o m(Azure)[2]
            \o "/_apis/git/repositories/" \o m(Azure)[3]
            \o "/items?path=/" \o filePath \o "&version=GB" \o branchName
            \o "&api-version=7.0"
       ELSE IF includes(cleanUrl, Bitbucket) /\ m(Bitbucket) # <<>>
       THEN "https://bitbucket.org/" \o m(Bitbucket)[1] \o "/"
            \o m(Bitbucket)[2] \o "/raw/" \o branchName \o "/" \o filePath
       ELSE Join(cleanUrl) \o "/raw/" \o branchName \o "/" \o filePath

\* config.get<string>('branch') || 'master'
branchOrMaster(configured) ==
    IF configured = NoBranch THEN "master" ELSE configured

(***************************************************************************)
(* RepositorySync.processAgentFiles, cut at its awaits.  A run of it is    *)
(* the record p: agents (the array validAgents, whose elements the code    *)
(* changes in place), k (the agent of the current iteration), j and tpl    *)
(* (the template of the current inner iteration and processedTemplates)    *)
(* and out (processedAgents).                                              *)
(***************************************************************************)
\* s.startsWith('file:'), for the texts of the manifests above
isFileRef(s) == \E fileName \in FileNames : s = "file:" \o fileName

NoManifest == [t |-> "none"]

RECURSIVE processFrom(_)
RECURSIVE templatesFrom(_)

\* processedAgents.push(agent), then the next iteration of the outer loop
pushAgent(p) ==
    processFrom([p EXCEPT !.out = Append(p.out, p.agents[p.k]),
                          !.k = p.k + 1, !.j = 1, !.tpl = <<>>])

\* the outer loop at its test: the run stops at the request for a prompt
\* file, or processAgentFiles returns and fetchAgents stores lastSync
processFrom(p) ==
    IF p.k > Len(p.agents)
    THEN [pc |-> "stamp", manifest |-> p.manifest, out |-> p.out]
    ELSE LET agent == p.agents[p.k]
         IN IF ~falsy(agent.prompt) /\ isFileRef(text(agent.prompt))
            THEN [p EXCEPT !.pc = "prompt"]
            ELSE templatesFrom([p EXCEPT !.j = 1, !.tpl = <<>>])

\* the templates of the current agent from template j on: the run stops at
\* the request for a template file, or the agent is pushed
templatesFrom(p) ==
    LET agent == p.agents[p.k]
    IN IF falsy(agent.templates) \/ ~isArray(agent.templates)
       THEN pushAgent(p)
       ELSE IF p.j > Len(agent.templates.items)
            THEN pushAgent([p EXCEPT !.agents[p.k].templates = Arr(p.tpl)])
            ELSE LET template == agent.templates.items[p.j]
                 IN IF isFileRef(template)
                    THEN [p EXCEPT !.pc = "template"]
                    ELSE templatesFrom([p EXCEPT !.tpl = Append(p.tpl, template),
                                                 !.j = p.j + 1])

\* agent.prompt = response.data
promptResolved(p, data) ==
    templatesFrom([p EXCEPT !.agents[p.k].prompt = data, !.j = 1, !.tpl = <<>>])

promptFailed_abort(p) ==
    [pc |-> "done", outcome |-> "raised", manifest |-> p.manifest,
     error |-> "AxiosError: Request failed with status code 404"]

promptFailed_drop(p) ==
    processFrom([p EXCEPT !.k = p.k + 1, !.j = 1, !.tpl = <<>>])

promptFailed_twice(p) ==
    pushAgent([p EXCEPT !.out = Append(p.out, p.agents[p.k])])

\* the catch block of the outer loop: the agent is pushed as it is
promptFailed(p) == pushAgent(p)

\* processedTemplates.push(response.data)
templateResolved(p, data) ==
    templatesFrom([p EXCEPT !.tpl = Append(p.tpl, data), !.j = p.j + 1])

templateFailed_skip(p) ==
    templatesFrom([p EXCEPT !.j = p.j + 1])

\* the catch block of the inner loop: processedTemplates.push(template)
templateFailed(p) ==
    templatesFrom([p EXCEPT !.tpl = Append(p.tpl,
                                p.agents[p.k].templates.items[p.j]),
                            !.j = p.j + 1])

(***************************************************************************)
(* fetchAgents and syncAgents.  globalState.update(key, value) makes the   *)
(* value the one globalState.get(key) returns as soon as it is called; the *)
(* promise it returns resolves later.                                      *)
(***************************************************************************)
Resolved(value) == [settled |-> "resolved", value |-> value]
Rejected(error) == [settled |-> "rejected", error |-> error]

fetchAgentsCatch_rethrow(cachedAgents, error) == Rejected(error)

fetchAgentsCatch_swallow(cachedAgents, error) == Resolved(cachedAgents)

\* the catch block of fetchAgents: how its promise settles after a failure
fetchAgentsCatch(cachedAgents, error) ==
    IF Len(cachedAgents) > 0
    THEN Resolved(cachedAgents)
    ELSE Rejected(error)

syncAgents_installEmpty(settlement, map, saved, messages) ==
    IF settlement.settled = "resolved"
    THEN LET installed == updateAgents(settlement.value, map)
         IN [pc |-> "saving", agents |-> installed,
             persisted |-> values(installed), shown |-> messages]
    ELSE [pc |-> "done", agents |-> map, persisted |-> saved,
          shown |-> Append(messages, "Failed to sync agents: "
                                      \o errorString(settlement.error))]

syncAgents_noSave(settlement, map, saved, messages) ==
    IF settlement.settled = "resolved"
    THEN IF Len(settlement.value) > 0
         THEN [pc |-> "saving", agents |-> updateAgents(settlement.value, map),
               persisted |-> saved, shown |-> messages]
         ELSE [pc |-> "done", agents |-> map, persisted |-> saved,
               shown |-> messages]
    ELSE [pc |-> "done", agents |-> map, persisted |-> saved,
          shown |-> Append(messages, "Failed to sync agents: "
                                      \o errorString(settlement.error))]

\* syncAgents after await repositorySync.fetchAgents(), up to the await in
\* saveAgents: the Map, globalState 'agents' and the messages shown
syncAgents(settlement, map, saved, messages) ==
    IF settlement.settled = "resolved"
    THEN IF Len(settlement.value) > 0
         THEN LET installed == updateAgents(settlement.value, map)
              IN [pc |-> "saving", agents |-> installed,
                  persisted |-> values(installed), shown |-> messages]
         ELSE [pc |-> "done", agents |-> map, persisted |-> saved,
               shown |-> messages]
    ELSE [pc |-> "done", agents |-> map, persisted |-> saved,
          shown |-> Append(messages, "Failed to sync agents: "
                                      \o errorString(settlement.error))]

\* RepositorySync.getSyncStatus
getSyncStatus ==
    [lastSync |-> lastSync,
     repoUrl |-> repoUrl,
     branch |-> branchOrMaster(branch),
     isConfigured |-> repoUrl # NoRepoUrl]

\* the record of a cycle after fetchAgents settled.  History fields: outcome
\* ("fetched": fetchAgents returned the agents of the manifest; "cached": it
\* returned the persisted agents; "raised": it rejected; "unconfigured"),
\* manifest (the response, if any) and error (the failure, if any)
Ended(pc, outcome, manifest, error) ==
    [pc |-> pc, outcome |-> outcome, manifest |-> manifest, error |-> error]

SyncStart_serialized(c) ==
    /\ cycles[c].pc = "idle"
    /\ \A other \in CycleIds : cycles[other].pc \in {"idle", "done"}
    /\ \A other \in CycleIds : other < c => cycles[other].pc # "idle"
    /\ cycles' = [cycles EXCEPT ![c] =
                     IF repoUrl = NoRepoUrl
                     THEN Ended(syncAgents(Resolved(<<>>), agents, persisted,
                                           shown).pc,
                                "unconfigured", NoManifest, NoError)
                     ELSE [pc |-> "manifest",
                           configUrl |-> buildRawUrl(repoUrl,
                                             branchOrMaster(branch),
                                             "agents.json")]]
    /\ UNCHANGED <<loaderVars, callVars, preloadVars, manyVars,
                   agents, persisted, lastSync, repoUrl, branch, shown>>

\* a sync cycle starts (activation, timer or refresh command): syncAgents and
\* fetchAgents up to the request for the manifest at configUrl
SyncStart(c) ==
    /\ cycles[c].pc = "idle"
    /\ \A other \in CycleIds : other < c => cycles[other].pc # "idle"
    /\ cycles' = [cycles EXCEPT ![c] =
                     IF repoUrl = NoRepoUrl
                     THEN Ended(syncAgents(Resolved(<<>>), agents, persisted,
                                           shown).pc,
                                "unconfigured", NoManifest, NoError)
                     ELSE [pc |-> "manifest",
                           configUrl |-> buildRawUrl(repoUrl,
                                             branchOrMaster(branch),
                                             "agents.json")]]
    /\ UNCHANGED <<loaderVars, callVars, preloadVars, manyVars,
                   agents, persisted, lastSync, repoUrl, branch, shown>>

\* the run of processAgentFiles of cycle c reaches p
Advance(c, p) ==
    /\ cycles' = [cycles EXCEPT ![c] = p]
    /\ lastSync' = IF p.pc = "stamp" THEN toISOString(now) ELSE lastSync
    /\ UNCHANGED <<loaderVars, callVars, preloadVars, manyVars,
                   agents, persisted, repoUrl, branch, shown>>

\* fetchAgents of cycle c settles as settlement: syncAgents continues
Settle(c, settlement, outcome, manifest, error) ==
    LET after == syncAgents(settlement, agents, persisted, shown)
    IN /\ agents' = after.agents
       /\ persisted' = after.persisted
       /\ shown' = after.shown
       /\ cycles' = [cycles EXCEPT ![c] =
                        Ended(after.pc, outcome, manifest, error)]
       /\ UNCHANGED <<loaderVars, callVars, preloadVars, manyVars,
                      lastSync, repoUrl, branch>>

\* the try block of fetchAgents raised error
Failed(c, error, manifest) ==
    LET settlement == fetchAgentsCatch(persisted, error)
    IN Settle(c, settlement,
              IF settlement.settled = "resolved" THEN "cached" ELSE "raised",
              manifest, errorString(error))

\* the request for the manifest succeeds with response.data = data
ManifestOk(c, data) ==
    /\ cycles[c].pc = "manifest"
    /\ IF ~accepted(data)
       THEN Failed(c, FormatError, data)
       ELSE IF filterRaises(data.agents.items)
            THEN Failed(c, TypeError, data)
            ELSE Advance(c, processFrom([pc |-> "run", manifest |-> data,
                                         agents |-> filter(data.agents.items),
                                         k |-> 1, j |-> 1, tpl |-> <<>>,
                                         out |-> <<>>]))

\* the request for the manifest fails
ManifestFail(c, error) ==
    /\ cycles[c].pc = "manifest"
    /\ Failed(c, error, NoManifest)

PromptOk(c, data) ==
    /\ cycles[c].pc = "prompt"
    /\ Advance(c, promptResolved(cycles[c], data))

PromptFail(c) ==
    /\ cycles[c].pc = "prompt"
    /\ Advance(c, promptFailed(cycles[c]))

TemplateOk(c, data) ==
    /\ cycles[c].pc = "template"
    /\ Advance(c, templateResolved(cycles[c], data))

TemplateFail(c) ==
    /\ cycles[c].pc = "template"
    /\ Advance(c, templateFailed(cycles[c]))

\* globalState.update('lastSync', ...) resolves: fetchAgents returns
\* processedAgents
StampDone(c) ==
    /\ cycles[c].pc = "stamp"
    /\ Settle(c, Resolved(cycles[c].out), "fetched", cycles[c].manifest, NoError)

\* globalState.update('agents', ...) resolves: saveAgents and updateAgents
\* return, updateParticipants finds no extension context, syncAgents returns
SaveDone(c) ==
    /\ cycles[c].pc = "saving"
    /\ cycles' = [cycles EXCEPT ![c].pc = "done"]
    /\ UNCHANGED <<loaderVars, callVars, preloadVars, manyVars,
                   agents, persisted, lastSync, repoUrl, branch, shown>>

\* the state after activate loaded the persisted agents, before its sync
InitSync ==
    /\ InitLoader
    /\ InitCycles
    /\ persisted \in InitialPersisted
    /\ agents = loadAgents(persisted)
    /\ repoUrl \in RepoUrls
    /\ branch = NoBranch

NextSync ==
    \/ \E c \in CycleIds : SyncStart(c)
    \/ \E c \in CycleIds, data \in Manifests : ManifestOk(c, data)
    \/ \E c \in CycleIds, error \in ManifestErrors : ManifestFail(c, error)
    \/ \E c \in CycleIds, data \in PromptBodies : PromptOk(c, data)
    \/ \E c \in CycleIds : PromptFail(c)
    \/ \E c \in CycleIds, data \in TemplateBodies : TemplateOk(c, data)
    \/ \E c \in CycleIds : TemplateFail(c)
    \/ \E c \in CycleIds : StampDone(c)
    \/ \E c \in CycleIds : SaveDone(c)

SpecSync == InitSync /\ [][NextSync]_vars

(***************************************************************************)
(* The cycles on a manifest whose agents refer to several files: every     *)
(* request of processAgentFiles succeeds or fails.                         *)
(***************************************************************************)
NextFiles ==
    \/ \E c \in CycleIds : SyncStart(c)
    \/ \E c \in CycleIds, data \in FileManifests : ManifestOk(c, data)
    \/ \E c \in CycleIds, data \in PromptBodies : PromptOk(c, data)
    \/ \E c \in CycleIds : PromptFail(c)
    \/ \E c \in CycleIds, data \in TemplateBodies : TemplateOk(c, data)
    \/ \E c \in CycleIds : TemplateFail(c)
    \/ \E c \in CycleIds : StampDone(c)
    \/ \E c \in CycleIds : SaveDone(c)

SpecFiles == InitSync /\ [][NextFiles]_vars

(***************************************************************************)
(* The behaviours of SpecSync in which the responses to the manifest       *)
(* requests arrive in the order in which the cycles sent them: there the   *)
(* manifest retrieved last is the manifest of the last cycle that got one. *)
(***************************************************************************)
ManifestInOrder(c, data) ==
    /\ \A other \in CycleIds : other < c => cycles[other].pc # "manifest"
    /\ ManifestOk(c, data)

NextOrder ==
    \/ \E c \in CycleIds : SyncStart(c)
    \/ \E c \in CycleIds, data \in Manifests : ManifestInOrder(c, data)
    \/ \E c \in CycleIds, error \in ManifestErrors : ManifestFail(c, error)
    \/ \E c \in CycleIds, data \in PromptBodies : PromptOk(c, data)
    \/ \E c \in CycleIds : PromptFail(c)
    \/ \E c \in CycleIds, data \in TemplateBodies : TemplateOk(c, data)
    \/ \E c \in CycleIds : TemplateFail(c)
    \/ \E c \in CycleIds : StampDone(c)
    \/ \E c \in CycleIds : SaveDone(c)

SpecOrder == InitSync /\ [][NextOrder]_vars

(***************************************************************************)
(* The manifest requests of the cycles, for the repository urls and the    *)
(* branches of RawRepoUrls and Branches.                                   *)
(***************************************************************************)
InitRawUrl ==
    /\ InitLoader
    /\ InitCycles
    /\ persisted \in InitialPersisted
    /\ agents = loadAgents(persisted)
    /\ repoUrl \in RawRepoUrls
    /\ branch \in Branches

NextRawUrl ==
    \/ \E c \in CycleIds : SyncStart(c)
    \/ \E c \in CycleIds, error \in ManifestErrors : ManifestFail(c, error)
    \/ \E c \in CycleIds : SaveDone(c)

SpecRawUrl == InitRawUrl /\ [][NextRawUrl]_vars

(***************************************************************************)
(* The other operations of AgentManager.  Each sets the Map and calls      *)
(* saveAgents before its await; nothing of it runs after the await but the *)
(* return.                                                                 *)
(***************************************************************************)
\* the agents handed to addOrUpdateAgent, and the ids handed to removeAgent
AgentPool == {Old9, Ftp, EmptyId, NoPrompt}
AgentIds == {"a1", "z9"}

\* this.agents.delete(id) on the Map given by its values
mapDelete(map, id) == SelectSeq(map, LAMBDA agent : agent.id # S(id))

AddOrUpdateAgent(agent) ==
    /\ IF AgentManager_validateAgent(agent)
       THEN /\ agents' = mapSet(agents, agent)
            /\ persisted' = values(agents')
       ELSE UNCHANGED <<agents, persisted>>
    /\ UNCHANGED <<loaderVars, callVars, preloadVars, manyVars,
                   lastSync, repoUrl, branch, cycles, shown>>

RemoveAgent(id) ==
    /\ LET deleted == getAgent(agents, id) # <<>>
       IN IF deleted
          THEN /\ agents' = mapDelete(agents, id)
               /\ persisted' = values(agents')
          ELSE UNCHANGED <<agents, persisted>>
    /\ UNCHANGED <<loaderVars, callVars, preloadVars, manyVars,
                   lastSync, repoUrl, branch, cycles, shown>>

ClearAgents ==
    /\ agents' = <<>>
    /\ persisted' = values(agents')
    /\ UNCHANGED <<loaderVars, callVars, preloadVars, manyVars,
                   lastSync, repoUrl, branch, cycles, shown>>

LoadAgents ==
    /\ agents' = loadAgents(persisted)
    /\ UNCHANGED <<loaderVars, callVars, preloadVars, manyVars,
                   persisted, lastSync, repoUrl, branch, cycles, shown>>

NextStore ==
    \/ NextSync
    \/ \E agent \in AgentPool : AddOrUpdateAgent(agent)
    \/ \E id \in AgentIds : RemoveAgent(id)
    \/ ClearAgents
    \/ LoadAgents

SpecStore == InitSync /\ [][NextStore]_vars

(***************************************************************************)
(* Properties of loadResource, checked under Spec.                         *)
(***************************************************************************)
\* the cache lifetime a resource declares: its own cacheDuration, and the
\* system-wide default only when it declares none
OwnLifetime(resource) ==
    IF resource.cacheDuration.set THEN resource.cacheDuration.ms
    ELSE defaultCacheDuration

Started == { c \in CallIds : calls[c].pc # "idle" }
Settled == { c \in CallIds : calls[c].pc \in {"done", "raised"} }
\* the call has issued a network request
Issued(call) == call.pc = "fetching" \/ call.attempted

\* C1: a loadResource call that starts while an entry of its (url, headers)
\* key is cached and younger than the resource's cache lifetime issues no
\* network call (the only one was that of the load that made the entry) and
\* returns the cached content with no error.
C1_CacheHit ==
    \A c \in Started :
        (calls[c].hadEntry /\ calls[c].age < OwnLifetime(calls[c].resource))
        => /\ calls[c].pc = "done"
           /\ ~calls[c].attempted
           /\ calls[c].result.content = calls[c].found
           /\ calls[c].result.error = NoError

C1_Witness ==
    \E c \in Settled :
        /\ calls[c].hadEntry
        /\ calls[c].age > 0
        /\ calls[c].age < OwnLifetime(calls[c].resource)
        /\ ~calls[c].attempted
        /\ nloads = 2

\* C2: when the fetch of a loadResource call fails and an earlier load of
\* the same cache key succeeded, the call returns the content of that
\* (latest) successful load, with the error field set.
C2_StaleFallback ==
    \A c \in Settled :
        (calls[c].failed /\ calls[c].prior # NoContent)
        => /\ calls[c].pc = "done"
           /\ calls[c].result.content = calls[c].prior
           /\ calls[c].result.error # NoError

C2_Witness ==
    \E c \in Settled :
        /\ calls[c].failed
        /\ calls[c].prior # NoContent
        /\ calls[c].age >= OwnLifetime(calls[c].resource)
        /\ calls[c].result.content = calls[c].prior
        /\ calls[c].result.content # ""

\* the fetch of call c fails in this step
Fails(c) ==
    /\ calls[c].pc = "fetching"
    /\ calls'[c].pc \in {"done", "raised"}
    /\ calls'[c].failed

\* C3 as stated: when loadResource is called for a key that has no cache
\* entry and its fetch fails, it returns empty content with the error set
\* and the cache has no entry for the key afterwards.
C3_Original ==
    [][\A c \in CallIds :
          (Fails(c) /\ ~calls[c].hadEntry)
          => /\ calls'[c].pc = "done"
             /\ calls'[c].result.content = ""
             /\ calls'[c].result.error # NoError
             /\ ~cache'[getCacheKey(calls[c].resource)].present]_vars

\* C3 amended: when the fetch of a loadResource call fails and the cache has
\* no entry for the key at that time, the call returns empty content with
\* the error set and the cache has no entry for the key afterwards.
C3_PureMiss ==
    [][\A c \in CallIds :
          (Fails(c) /\ ~cache[getCacheKey(calls[c].resource)].present)
          => /\ calls'[c].pc = "done"
             /\ calls'[c].result.content = ""
             /\ calls'[c].result.error # NoError
             /\ ~cache'[getCacheKey(calls[c].resource)].present]_vars

C3_Witness ==
    \E c \in Settled :
        /\ calls[c].failed
        /\ ~calls[c].staleEntry
        /\ ~cache[getCacheKey(calls[c].resource)].present

\* C4: loadResource never raises: every call that settles returns a
\* ResourceContent, whose error field is set exactly when a fetch was
\* attempted and failed (absent on a cache hit and on a successful fetch).
C4_NeverRaises ==
    \A c \in Started :
        /\ calls[c].pc # "raised"
        /\ calls[c].pc = "done"
           => /\ calls[c].result.returned
              /\ calls[c].result.url = calls[c].resource.url
              /\ (calls[c].result.error # NoError)
                 <=> (calls[c].attempted /\ calls[c].failed)

C4_Witness ==
    /\ \E c \in Settled :
          /\ calls[c].failed
          /\ ~calls[c].staleEntry
          /\ calls[c].result.error = "timeout of 15000ms exceeded"
    /\ \E c \in Settled : calls[c].attempted /\ ~calls[c].failed

\* C5: loadResource issues a network call if and only if the key has no
\* cache entry or the entry's age is not below the resource's own
\* cacheDuration (the default only when none is declared), for every
\* declared cacheDuration including 0.
C5_OwnLifetime ==
    \A c \in Started :
        Issued(calls[c])
        <=> (~calls[c].hadEntry
             \/ ~(calls[c].age < OwnLifetime(calls[c].resource)))

\* C6: resources with the same url and different headers have independent
\* cache slots: the slot of each (url, headers) identity holds exactly the
\* entry made by the latest successful load of that identity (no load of
\* another identity creates, overwrites or refreshes it), and a call served
\* from the cache is served from a load of its own identity.
C6_IndependentSlots ==
    /\ \A r \in AllResources : cache[getCacheKey(r)] = lastGood[Identity(r)]
    /\ \A c \in Settled :
          ~calls[c].attempted => lastGood[Identity(calls[c].resource)].present

C6_Witness ==
    \E c \in Settled, r \in HandlerResources :
        /\ r.url = calls[c].resource.url
        /\ r.headers # calls[c].resource.headers
        /\ lastGood[Identity(r)].present
        /\ calls[c].attempted /\ ~calls[c].failed /\ ~calls[c].hadEntry
        /\ cache[getCacheKey(r)] # cache[getCacheKey(calls[c].resource)]

Positions == DOMAIN ploads
InFlight == { k \in Positions : ploads[k].pc = "fetching" }
Begun == { k \in Positions : ploads[k].pc # "pending" }
\* the number of the batch (from 0) that position k belongs to
BatchOf(k) == (k - 1) \div 5

\* C8: during preloadResources at most 5 network fetches are in flight.
C8_AtMostFive == Cardinality(InFlight) <= 5

C8_Witness ==
    /\ Cardinality(InFlight) = 5
    /\ \E k \in Positions : ploads[k].pc = "pending"

\* C9: no load of a later batch starts before every load of the earlier
\* batches has completed; a failed fetch does not abort preloadResources,
\* and the result of every successful sibling is cached.
C9_BatchBarrier ==
    /\ ppc # "aborted"
    /\ \A j, k \in Positions :
          (BatchOf(j) < BatchOf(k) /\ k \in Begun) => ploads[j].pc = "done"
    /\ \A k \in Positions :
          (ploads[k].pc = "done" /\ ploads[k].attempted /\ ~ploads[k].failed)
          => cache[getCacheKey(ploads[k].resource)].present
    /\ ppc = "done" => \A k \in Positions : ploads[k].pc = "done"

C9_Witness ==
    /\ ppc = "running"
    /\ \E k \in Begun : BatchOf(k) = 1
    /\ \E j, k \in Positions :
          /\ BatchOf(j) = 0 /\ BatchOf(k) = 0
          /\ ploads[j].failed
          /\ ploads[k].attempted /\ ~ploads[k].failed
          /\ cache[getCacheKey(ploads[k].resource)].present

\* the position in the flattened input of the first resource with url u
FirstIndex(all, u) ==
    CHOOSE i \in 1..Len(all) :
        all[i].url = u /\ \A j \in 1..(i - 1) : all[j].url # u

\* C10: preloadResources loads each distinct url at most once, the resource
\* loaded for a url is the first one declaring it in owner order, and when
\* it returns every declared url has been loaded.
C10_FirstSeenWins ==
    LET all == Flatten(pinput)
    IN /\ \A j, k \in Begun :
             j # k => ploads[j].resource.url # ploads[k].resource.url
       /\ \A k \in Begun :
             /\ \E i \in 1..Len(all) : all[i].url = ploads[k].resource.url
             /\ ploads[k].resource = all[FirstIndex(all, ploads[k].resource.url)]
       /\ ppc = "done"
          => \A i \in 1..Len(all) :
                \E k \in Begun : ploads[k].resource.url = all[i].url

C10_Witness ==
    LET all == Flatten(pinput)
    IN /\ ppc = "done"
       /\ \E i, j \in 1..Len(all), k \in Begun :
             /\ i < j
             /\ all[i].url = all[j].url
             /\ all[i] # all[j]
             /\ ploads[k].resource = all[i]
             /\ ploads[k].attempted

(***************************************************************************)
(* Properties of loadResources, checked under SpecLoadResources.           *)
(***************************************************************************)
LInFlight == { k \in DOMAIN lloads : lloads[k].pc = "fetching" }
LBegun == { k \in DOMAIN lloads : lloads[k].pc # "pending" }

\* C11: loadResources returns one ResourceContent per input resource, in
\* input order (result i carries the url of input i), and loads strictly one
\* after the other: the load of a position has not begun before the result of
\* the position before it was pushed, so at most one fetch is in flight.
C11_SequentialInOrder ==
    /\ lpc # "aborted"
    /\ Len(lresults) <= Len(linput)
    /\ lpc = "done" => Len(lresults) = Len(linput)
    /\ \A i \in 1..Len(lresults) :
          lresults[i].returned /\ lresults[i].url = linput[i].url
    /\ \A k \in LBegun : k <= Len(lresults) + 1
    /\ Cardinality(LInFlight) <= 1

\* a call over three resources with two urls has returned, the first load
\* by a successful fetch and a later one after a failed fetch
C11_Witness ==
    /\ lpc = "done"
    /\ Len(linput) = 3
    /\ linput[1].url # linput[2].url
    /\ lresults[1].error = NoError
    /\ \E i \in 2..3 : lloads[i].failed

(***************************************************************************)
(* Properties of agent synchronisation, checked under SpecSync and         *)
(* SpecStore.                                                              *)
(***************************************************************************)
\* the Agent invariant: id, name and prompt are non-empty texts, and every
\* declared resource has a type among the three kinds and a non-empty url
WellFormedResource(resource) ==
    /\ resource.type.t = "string"
    /\ resource.type.v \in {"url", "file", "api"}
    /\ resource.url.t = "string"
    /\ resource.url.v # ""

WellFormedAgent(agent) ==
    /\ \A field \in {agent.id, agent.name, agent.prompt} :
          field.t = "string" /\ field.v # ""
    /\ agent.resources.t \in {"undefined", "array"}
    /\ agent.resources.t = "array" =>
          \A i \in 1..Len(agent.resources.items) :
              WellFormedResource(agent.resources.items[i])

RECURSIVE OnePerId(_, _)
\* of the agents ok, from position i on: the latest agent of each id, at the
\* place of the first agent of that id
OnePerId(ok, i) ==
    IF i > Len(ok) THEN <<>>
    ELSE IF \E before \in 1..(i - 1) : ok[before].id = ok[i].id
         THEN OnePerId(ok, i + 1)
         ELSE LET same == { j \in i..Len(ok) : ok[j].id = ok[i].id }
                  last == CHOOSE j \in same : \A other \in same : other <= j
              IN <<ok[last]>> \o OnePerId(ok, i + 1)

\* the complete agent set of a list handed to the store
CompleteSet(list) == OnePerId(SelectSeq(list, WellFormedAgent), 1)

NamesAsked == {"reviewer", "DOCS", "Legacy", "nobody"}
IdsAsked == {"a1", "a2", "z9", "a"}

\* what the three readers return on a Map
Reads(map) ==
    <<getAgents(map),
      [id \in IdsAsked |-> getAgent(map, id)],
      [name \in NamesAsked |-> getAgentByName(map, name)]>>

Processing == {"prompt", "template", "stamp"}
Over == {"saving", "done"}

\* cycle c hands a list to updateAgents in this step
Installs(c) ==
    cycles[c].pc \in {"manifest", "stamp"} /\ cycles'[c].pc = "saving"

\* the list cycle c hands over when it leaves the state it is in
ListHanded(c) ==
    IF cycles[c].pc = "stamp" THEN cycles[c].out ELSE persisted

\* the manifest request of cycle c fails in this step (no response, or a
\* response that is not accepted)
ManifestFails(c) ==
    cycles[c].pc = "manifest" /\ cycles'[c].pc \in Over

\* C12: a reader of the store (getAgents, getAgent, getAgentByName) that
\* runs at any point of a resync sees the complete previous set or the
\* complete new set: whenever what the readers return changes, it changes in
\* one step to what they return on the complete set of the list a cycle
\* hands to the store in that step.
C12_AtomicReplace ==
    [][Reads(agents') # Reads(agents) =>
          \E c \in CycleIds :
              /\ Installs(c)
              /\ Reads(agents') = Reads(CompleteSet(ListHanded(c)))]_vars

\* a second cycle has replaced the non-empty set of the first one by the two
\* agents of its manifest and has not returned yet
C12_Witness ==
    /\ MaxCycles >= 2
    /\ cycles[1].pc = "done" /\ cycles[1].outcome = "cached"
    /\ cycles[2].pc = "saving" /\ cycles[2].outcome = "fetched"
    /\ Len(agents) = 2
    /\ agents[1].id = S("a2")

\* C13: when a cycle whose manifest was retrieved hands over its result, the
\* store holds exactly the complete set of that cycle's agents, whatever the
\* number of valid entries.
C13_ReplacedWholesale ==
    [][\A c \in CycleIds :
          cycles[c].pc = "stamp" /\ cycles'[c].pc \in Over =>
              getAgents(agents') = CompleteSet(cycles[c].out)]_vars

\* C14: when the manifest request of a cycle fails and the persisted list is
\* not empty, the cycle leaves the store holding the persisted list and shows
\* no message, neither then nor when it returns.
C14_CachedSilently ==
    [][\A c \in CycleIds :
          /\ ManifestFails(c) /\ persisted # <<>> =>
                /\ getAgents(agents') = persisted
                /\ persisted' = persisted
                /\ shown' = shown
                /\ cycles'[c].outcome = "cached"
          /\ cycles[c].pc = "saving" /\ cycles'[c].pc = "done" =>
                /\ agents' = agents
                /\ shown' = shown]_vars

\* a cycle has returned after its manifest request failed, with agents
\* persisted and no message shown
C14_Witness ==
    \E c \in CycleIds :
        /\ cycles[c].pc = "done" /\ cycles[c].outcome = "cached"
        /\ agents # <<>>
        /\ getAgents(agents) = persisted
        /\ shown = <<>>

\* C15: when the manifest request of a cycle fails and the persisted list is
\* empty or absent, the cycle ends with no agent in the store and one more
\* error message shown, which carries the error.
C15_NoCacheSurfaces ==
    [][\A c \in CycleIds :
          ManifestFails(c) /\ persisted = <<>> =>
              /\ cycles'[c].pc = "done" /\ cycles'[c].outcome = "raised"
              /\ getAgents(agents') = <<>>
              /\ shown' = Append(shown, "Failed to sync agents: "
                                         \o cycles'[c].error)]_vars

\* a cycle has ended on a failed manifest request with nothing persisted
C15_Witness ==
    \E c \in CycleIds :
        /\ cycles[c].pc = "done" /\ cycles[c].outcome = "raised"
        /\ agents = <<>>
        /\ Len(shown) = 1

FailedCycles ==
    { c \in CycleIds : cycles[c].pc \in Over
                       /\ cycles[c].outcome \in {"cached", "raised"} }
FetchedCycles ==
    { c \in CycleIds : cycles[c].pc \in Over /\ cycles[c].outcome = "fetched" }

\* C16: while a cycle has failed to fetch its manifest and no cycle has
\* succeeded, the status query returns a lastError, the error of a failed
\* cycle (also when the cycle was served from the persisted list).
C16_ErrorRetained ==
    FailedCycles # {} /\ FetchedCycles = {} =>
        /\ "lastError" \in DOMAIN getSyncStatus
        /\ getSyncStatus.lastError \in { cycles[c].error : c \in FailedCycles }

\* a response with a version marker and a list of entries
HasVersionAndList(manifest) ==
    /\ manifest.t = "object"
    /\ manifest.version.t = "string" /\ manifest.version.v # ""
    /\ manifest.agents.t = "array"

\* a well-formed manifest: a version marker and a list of entry objects
WellFormedManifest(manifest) ==
    /\ HasVersionAndList(manifest)
    /\ \A i \in 1..Len(manifest.agents.items) :
          manifest.agents.items[i].t = "object"

\* the entries of a manifest that pass the validation of the Fetcher
PassesValidation(entry) ==
    \A field \in {entry.id, entry.name, entry.prompt} :
        field.t = "string" /\ field.v # ""

HasReference(entry) ==
    \/ isFileRef(entry.prompt.v)
    \/ entry.templates.t = "array" /\
         \E i \in 1..Len(entry.templates.items) :
             isFileRef(entry.templates.items[i])

Retrieved(c) == cycles[c].pc \in Processing \cup Over /\ cycles[c].manifest.t = "object"

\* a bound on the number of steps a cycle has left: the agents and the
\* templates still to process, then the two updates of globalState
Remaining(cycle) ==
    CASE cycle.pc = "done" -> 0
      [] cycle.pc = "saving" -> 1
      [] cycle.pc = "stamp" -> 2
      [] cycle.pc = "prompt" ->
            100 * (Len(cycle.agents) - cycle.k + 1) + 50
      [] cycle.pc = "template" ->
            100 * (Len(cycle.agents) - cycle.k + 1)
            + (Len(cycle.agents[cycle.k].templates.items) - cycle.j + 1)

C18_VersionAndList ==
    \A c \in CycleIds :
        /\ cycles[c].pc \in Processing \cup Over
        /\ cycles[c].manifest.t = "object"
        /\ cycles[c].pc \in Over => cycles[c].outcome = "fetched"
        => HasVersionAndList(cycles[c].manifest)

IdAndName(list) == [i \in 1..Len(list) |-> <<list[i].id, list[i].name>>]

C20_StoreHoldsValidAgents ==
    \A i \in 1..Len(agents) : WellFormedAgent(agents[i])

\* a cycle handed over a list whose only agent declares an ftp resource,
\* and the store holds no agent of it but one added by addOrUpdateAgent
C20_Witness ==
    /\ \E c \in CycleIds :
          /\ cycles[c].pc \in Over /\ cycles[c].outcome = "fetched"
          /\ cycles[c].manifest.t = "object"
          /\ Len(cycles[c].manifest.agents.items) = 3
          /\ cycles[c].manifest.agents.items[2] = Ftp
    /\ agents = <<Old9>>

\* the entries of the manifest cycle c went on with (none when the response
\* was not accepted)
EntriesOf(c) ==
    IF Retrieved(c) /\ cycles[c].manifest.agents.t = "array"
    THEN SelectSeq(cycles[c].manifest.agents.items,
                   LAMBDA entry : entry.t = "object")
    ELSE <<>>

\* C21: for every entry of a retrieved manifest, the validation of the
\* Fetcher accepts the entry if and only if the validation of the store
\* accepts it, the rules on declared resources included.
C21_SameRules ==
    \A c \in CycleIds :
        \A i \in 1..Len(EntriesOf(c)) :
            RepositorySync_validateAgent(EntriesOf(c)[i])
            <=> AgentManager_validateAgent(EntriesOf(c)[i])

\* the entries of the manifest of cycle c that pass the validation of the
\* Fetcher, in manifest order
ValidEntries(c) == SelectSeq(EntriesOf(c), PassesValidation)

\* the templates of the agent cycle c is processing, as they are after the
\* step: processedTemplates while the agent is being processed, the
\* templates of the first agent pushed in the step afterwards
TemplatesAfter(c) ==
    IF cycles'[c].pc \in {"prompt", "template"} /\ cycles'[c].k = cycles[c].k
    THEN cycles'[c].tpl
    ELSE cycles'[c].out[Len(cycles[c].out) + 1].templates.items

\* the agent cycle c is processing is still being processed after the step,
\* or it is the first agent pushed in the step
StillReturned(c) ==
    \/ cycles'[c].pc \in {"prompt", "template"} /\ cycles'[c].k = cycles[c].k
    \/ /\ Len(cycles'[c].out) > Len(cycles[c].out)
       /\ cycles'[c].out[Len(cycles[c].out) + 1].id =
              cycles[c].agents[cycles[c].k].id

\* C22: when the request for a template file fails, the entry keeps its
\* literal text at its position, the templates before it stay as they were
\* resolved, and the agent is still returned; in the list fetchAgents is
\* about to return, every agent has as many templates as its entry, each a
\* literal entry unchanged or a file reference resolved at its position.
C22_TemplateFallback ==
    /\ [](\A c \in CycleIds :
             cycles[c].pc = "stamp" =>
                 \A k \in 1..Len(cycles[c].out) :
                     LET entry == ValidEntries(c)[k]
                         agent == cycles[c].out[k]
                     IN entry.templates.t = "array" =>
                            /\ agent.templates.t = "array"
                            /\ Len(agent.templates.items) = Len(entry.templates.items)
                            /\ \A i \in 1..Len(entry.templates.items) :
                                  \/ agent.templates.items[i] = entry.templates.items[i]
                                  \/ /\ isFileRef(entry.templates.items[i])
                                     /\ agent.templates.items[i] \in TemplateBodies)
    /\ [][\A c \in CycleIds :
             TemplateFail(c) =>
                 LET j == cycles[c].j
                     literal == cycles[c].agents[cycles[c].k].templates.items[j]
                 IN /\ StillReturned(c)
                    /\ Len(TemplatesAfter(c)) >= j
                    /\ TemplatesAfter(c)[j] = literal
                    /\ \A i \in 1..(j - 1) :
                          TemplatesAfter(c)[i] = cycles[c].tpl[i]]_vars

\* the agent of three templates is about to be returned with its first
\* template unresolved and its third template resolved
C22_Witness ==
    \E c \in CycleIds :
        /\ cycles[c].pc = "stamp"
        /\ \E k \in 1..Len(cycles[c].out) :
              /\ cycles[c].out[k].templates.t = "array"
              /\ cycles[c].out[k].templates.items =
                     <<"file:t1.md", "plain", "# Template">>

\* C23: when the request for the prompt file of an agent fails, fetchAgents
\* does not fail: the agent is pushed exactly once, as it was (prompt
\* unresolved), right after the agents pushed before it, and the cycle goes
\* on with the agents after it up to the end of the list.
C23_PromptFallback ==
    /\ [](\A c \in CycleIds :
             cycles[c].pc \in {"prompt", "template"} =>
                 /\ Len(cycles[c].agents) = Len(ValidEntries(c))
                 /\ Len(cycles[c].out) = cycles[c].k - 1)
    /\ [][\A c \in CycleIds :
             PromptFail(c) =>
                 LET k == cycles[c].k
                     agent == cycles[c].agents[k]
                     pushed == Len(cycles[c].out)
                 IN /\ cycles'[c].pc \in Processing
                    /\ Len(cycles'[c].out) > pushed
                    /\ SubSeq(cycles'[c].out, 1, pushed + 1) =
                           Append(cycles[c].out, agent)
                    /\ agent.prompt = ValidEntries(c)[k].prompt
                    /\ \A i \in (pushed + 2)..Len(cycles'[c].out) :
                           cycles'[c].out[i].id # agent.id
                    /\ IF cycles'[c].pc = "stamp"
                       THEN Len(cycles'[c].out) = Len(ValidEntries(c))
                       ELSE cycles'[c].k > k]_vars

\* the request for the prompt file of the first of two agents failed: the
\* list about to be returned holds that agent with its file reference as
\* prompt and its templates untouched, and the agent after it
C23_Witness ==
    \E c \in CycleIds :
        /\ cycles[c].pc = "stamp"
        /\ Len(cycles[c].out) = 2
        /\ cycles[c].out[1].prompt = S("file:docs.md")
        /\ cycles[c].out[1].templates.items[1] = "file:t1.md"
        /\ cycles[c].out[2].id = S("a1")

\* C24: the persisted list is the list of the agents of the store, and
\* loadAgents on an empty Map restores from it exactly the agents of the
\* store, in the same order; this holds at every point, in particular
\* whenever updateAgents has returned and no store operation is in progress
\* (loadAgents reads globalState only).
C24_PersistedRestores ==
    /\ persisted = getAgents(agents)
    /\ getAgents(loadAgents(persisted)) = getAgents(agents)
    /\ \A id \in IdsAsked :
          getAgent(loadAgents(persisted), id) = getAgent(agents, id)

\* a cycle has returned after updateAgents replaced the two persisted agents
\* of activation by the two agents of its manifest, no cycle is in flight
C24_Witness ==
    /\ \E c \in CycleIds :
          /\ cycles[c].pc = "done" /\ cycles[c].outcome = "fetched"
          /\ cycles[c].manifest.version = S("2.0")
    /\ \A c \in CycleIds : cycles[c].pc \in {"idle", "done"}
    /\ Len(persisted) = 2
    /\ persisted[1].id = S("a2")
    /\ getAgent(agents, "z9") = <<>>

(***************************************************************************)
(* Properties of buildRawUrl, checked under SpecRawUrl.                    *)
(***************************************************************************)
HostsInOrder == <<GitHub, GitLab, Azure, Bitbucket>>
\* the hosts whose name occurs in the configured url without its trailing
\* .git, and those whose pattern matches it
Recognized == { h \in 1..4 : includes(stripGit(repoUrl), HostsInOrder[h]) }
Matching == { h \in 1..4 : match(stripGit(repoUrl), HostsInOrder[h]) # <<>> }

\* the raw address of agents.json on host h for the groups g of its pattern
RawShape(h, g) ==
    LET b == branchOrMaster(branch)
    IN CASE h = 1 -> "https://raw.githubusercontent.com/" \o g[1] \o "/"
                     \o g[2] \o "/" \o b \o "/agents.json"
         [] h = 2 -> "https://gitlab.com/" \o g[1] \o "/" \o g[2]
                     \o "/-/raw/" \o b \o "/agents.json"
         [] h = 3 -> "https://dev.azure.com/" \o g[1] \o "/" \o g[2]
                     \o "/_apis/git/repositories/" \o g[3]
                     \o "/items?path=/agents.json&version=GB" \o b
                     \o "&api-version=7.0"
         [] h = 4 -> "https://bitbucket.org/" \o g[1] \o "/" \o g[2]
                     \o "/raw/" \o b \o "/agents.json"

\* <repo>/raw/<branch>/<path>
GenericShape ==
    Join(stripGit(repoUrl)) \o "/raw/" \o branchOrMaster(branch)
    \o "/agents.json"

Requesting == { c \in CycleIds : cycles[c].pc = "manifest" }

\* github.com/acme/widgets.git with branch main gives the address of
\* raw.githubusercontent.com
ExampleHolds(c) ==
    (/\ Join(repoUrl) = "https://github.com/acme/widgets.git"
     /\ branch = "main")
    => cycles[c].configUrl =
           "https://raw.githubusercontent.com/acme/widgets/main/agents.json"

\* C25 as stated: buildRawUrl always yields an address; a url in which the
\* name of a host occurs and the pattern of that host matches resolves to the
\* raw shape of that host; a url in which the name of a host occurs and the
\* pattern of that host does not match, and a url with no host name,
\* resolves to the generic address.
C25_Original ==
    \A c \in Requesting :
        /\ cycles[c].configUrl \in STRING
        /\ ExampleHolds(c)
        /\ \A h \in Recognized \cap Matching :
              cycles[c].configUrl =
                  RawShape(h, match(stripGit(repoUrl), HostsInOrder[h]))
        /\ Recognized \ Matching # {} => cycles[c].configUrl = GenericShape
        /\ Recognized = {} => cycles[c].configUrl = GenericShape

\* C25 amended: buildRawUrl always yields an address; the url resolves to the
\* raw shape of the first host, in the order GitHub, GitLab, Azure DevOps,
\* Bitbucket, whose pattern matches it after a trailing .git is stripped (a
\* host whose name occurs but whose pattern does not match is passed over
\* for the hosts after it), and to the generic address when no pattern
\* matches.
C25_FirstMatchingHost ==
    \A c \in Requesting :
        /\ cycles[c].configUrl \in STRING
        /\ ExampleHolds(c)
        /\ Matching \subseteq Recognized
        /\ IF Matching = {}
           THEN cycles[c].configUrl = GenericShape
           ELSE LET h == CHOOSE first \in Matching :
                             \A other \in Matching : first <= other
                IN cycles[c].configUrl =
                       RawShape(h, match(stripGit(repoUrl), HostsInOrder[h]))

\* the manifest is requested for a GitLab url whose path holds the name of
\* GitHub, which the pattern of GitHub does not match
C25_Witness ==
    \E c \in Requesting :
        /\ 1 \in Recognized \ Matching
        /\ 2 \in Matching
        /\ branch = "main"
        /\ cycles[c].configUrl =
               "https://gitlab.com/mirrors/github/-/raw/main/agents.json"

(***************************************************************************)
(* Properties of the cache, checked under Spec and SpecCache.              *)
(***************************************************************************)
\* call c is served from the cache in this step
Hits(c) == calls[c].pc = "idle" /\ calls'[c].pc = "done"

\* the fetch of call c succeeds in this step
Succeeds(c) ==
    /\ calls[c].pc = "fetching"
    /\ calls'[c].pc = "done"
    /\ ~calls'[c].failed

\* C26: an entry of the cache is created or changed only in the step in
\* which the fetch of a loadResource call succeeds, and then it is the entry
\* of the key of that call, made of the content returned and the time of the
\* step; a cache hit and a failed fetch (whether it returns the stale entry
\* or empty content) leave the whole cache as it is.
C26_OnlySuccessWrites ==
    [][/\ \A k \in Keys :
             cache'[k] # cache[k] =>
                 \E c \in CallIds :
                     /\ Succeeds(c)
                     /\ k = getCacheKey(calls[c].resource)
                     /\ cache'[k] = Entry(calls'[c].result.content, now)
       /\ \A c \in CallIds : Hits(c) \/ Fails(c) => cache' = cache]_vars

\* a call has returned the stale entry of its key after its fetch failed,
\* and the entry still has the time of the fetch that made it, while the
\* entry of the same url with other headers was never made
C26_Witness ==
    \E c \in Settled :
        /\ calls[c].failed /\ calls[c].staleEntry
        /\ cache[getCacheKey(calls[c].resource)].timestamp < now
        /\ cache[getCacheKey(calls[c].resource)].content = calls[c].result.content
        /\ \E k \in Keys : ~cache[k].present

\* the values of maxAge a caller of clearExpired may have in mind
MaxAges == {5000, defaultCacheDuration, 2 * defaultCacheDuration}

\* C27: whatever maxAge the caller supplies, a step of clearExpiredCache
\* removes exactly the entries whose age exceeds maxAge and leaves every
\* other entry as it is; so it removes no entry whose age is below the cache
\* lifetime of a resource when maxAge is at least that lifetime.
C27_ClearExpired ==
    [][ClearExpiredCache =>
          \A maxAge \in MaxAges :
              \A k \in Keys :
                  cache'[k] =
                      IF cache[k].present /\ now - cache[k].timestamp > maxAge
                      THEN NoEntry
                      ELSE cache[k]]_vars

\* cycle c has started and has not returned: a request or an update of
\* globalState is outstanding
CycleInFlight(c) == cycles[c].pc \notin {"idle", "done"}

\* C28: sync cycles are not serialized: while cycles started before are in
\* flight, whatever they are waiting for, the next cycle can start at once,
\* so that a tick or a refresh during a cycle in flight is neither blocked
\* nor skipped.
C28_NotSerialized ==
    \A c \in CycleIds :
        (/\ cycles[c].pc = "idle"
         /\ \A other \in CycleIds : other < c => cycles[other].pc # "idle"
         /\ \E other \in CycleIds : CycleInFlight(other))
            => ENABLED SyncStart(c)

\* two cycles are in flight at once: the second started while the request
\* of the first for its manifest was outstanding
C28_Witness ==
    /\ CycleInFlight(1) /\ cycles[1].pc = "manifest"
    /\ CycleInFlight(2) /\ cycles[2].pc = "manifest"

\* C29: when no repository URL is configured, a sync cycle returns in the
\* step in which it starts, without an error; no cycle ever waits for a
\* request, no message is shown, no error is recorded, and no step changes
\* the store, the persisted list or the time of the last sync.
C29_Unconfigured ==
    /\ [](repoUrl = NoRepoUrl =>
             /\ shown = <<>>
             /\ \A c \in CycleIds :
                   /\ cycles[c].pc \in {"idle", "done"}
                   /\ cycles[c].pc = "done" =>
                         /\ cycles[c].outcome = "unconfigured"
                         /\ cycles[c].error = NoError)
    /\ [][repoUrl = NoRepoUrl =>
             /\ agents' = agents
             /\ persisted' = persisted
             /\ lastSync' = lastSync
             /\ \A c \in CycleIds :
                   SyncStart(c) => cycles'[c].pc = "done"]_vars

\* without a repository URL, two cycles have returned and the store still
\* holds the two agents it was activated with
C29_Witness ==
    /\ repoUrl = NoRepoUrl
    /\ \A c \in CycleIds :
          cycles[c].pc = "done" /\ cycles[c].outcome = "unconfigured"
    /\ Len(agents) = 2
    /\ persisted = <<A1, Old9>>
    /\ lastSync = NoStamp

(***************************************************************************)
(* Properties of overlapping cycles, checked under SpecOrder.              *)
(***************************************************************************)
\* the cycles for which fetchAgents returned the agents of a manifest
Fetched ==
    { c \in CycleIds : cycles[c].pc = "done" /\ cycles[c].outcome = "fetched" }

\* the cycle whose manifest was retrieved last: under SpecOrder the
\* responses arrive in the order of the cycles
Latest == CHOOSE c \in Fetched : \A other \in Fetched : other <= c

\* agent is entry as the store holds it: the same id and name, and the same
\* prompt unless the prompt of the entry names a file
HeldAs(agent, entry) ==
    /\ agent.id = entry.id
    /\ agent.name = entry.name
    /\ isFileRef(entry.prompt.v) \/ agent.prompt = entry.prompt

\* C30 (for a latest manifest with an entry that the Fetcher and the store
\* accept; the other manifests are the cases of C13 and C21): once no cycle
\* is in flight, the store and the persisted list hold the set of the
\* manifest retrieved last: the persisted list is the list of the store,
\* and every agent of the store is an entry of that manifest.
C30_LatestManifestWins ==
    (/\ \A c \in CycleIds : ~CycleInFlight(c)
     /\ Fetched # {}
     /\ \E k \in 1..Len(ValidEntries(Latest)) :
           AgentManager_validateAgent(ValidEntries(Latest)[k]))
        => /\ persisted = values(agents)
           /\ \A i \in 1..Len(agents) :
                 \E k \in 1..Len(EntriesOf(Latest)) :
                     HeldAs(agents[i], EntriesOf(Latest)[k])

(***************************************************************************)
(* The store across a sync cycle, checked under SpecSync.                  *)
(***************************************************************************)
\* C31 (for a cycle that runs while no other cycle has started, so that the
\* store before the step is the store before syncAgents): a sync cycle
\* never turns a non-empty store into an empty one, whatever the manifest
\* and the outcome of its requests.
C31_NeverEmptied ==
    [][\A c \in CycleIds :
          (/\ cycles'[c] # cycles[c]
           /\ \A other \in CycleIds \ {c} : cycles[other].pc = "idle"
           /\ Len(agents) > 0)
              => Len(agents') > 0]_vars

(***************************************************************************)
(* The cache after preloadResources, checked under SpecPreload.            *)
(***************************************************************************)
\* C32 (while the clock has not advanced, so that no entry has aged): after
\* preloadResources returned with every request succeeding, a loadResource
\* of any resource of the input finds a fresh entry under its own key and
\* makes no request, a resource that shares its url with an earlier one
\* but has other headers included.
C32_PreloadWarmsEveryResource ==
    (/\ ppc = "done"
     /\ ticks = 0
     /\ \A k \in Positions : ploads[k].attempted /\ ~ploads[k].failed)
        => \A i \in 1..Len(Flatten(pinput)) :
              LET resource == Flatten(pinput)[i]
              IN /\ cache[getCacheKey(resource)].present
                 /\ loadResourceBegin(resource, cache, now).pc = "done"

(***************************************************************************)
(* Termination of preloadResources, checked under SpecPreloadFair.         *)
(***************************************************************************)
\* the urls the input declares
DeclaredUrls == { Flatten(pinput)[i].url : i \in 1..Len(Flatten(pinput)) }

\* every declared url has exactly one load, which made its request and
\* has returned
AttemptedOnce ==
    \A u \in DeclaredUrls :
        /\ Cardinality({ k \in Positions : parr[k].url = u }) = 1
        /\ \A k \in Positions :
              parr[k].url = u
                  => ploads[k].pc = "done" /\ ploads[k].attempted

\* C33: provided every request settles, preloadResources returns, whatever
\* requests succeed and fail, and by then it has attempted the load of
\* every unique url of its input exactly once.
C33_PreloadTerminates ==
    (ppc = "running") ~> (ppc = "done" /\ AttemptedOnce)

\* preloadResources has returned after two batches with a request that
\* failed and a request that succeeded
C33_Witness ==
    /\ ppc = "done"
    /\ Len(parr) > batchSize
    /\ AttemptedOnce
    /\ \E j, k \in Positions : ploads[j].failed /\ ~ploads[k].failed

====
